---- MODULE Spec2Model ----
(***************************************************************************)
(* The string-rewriting engine of lab1/fuzz_equiv.py (matcher, one-step    *)
(* application, reduction loop with a step cap, comparison of the two      *)
(* rule systems, the fuzz campaign) and the metamorphic chain walker of    *)
(* lab1/metamorphic.py.                                                    *)
(*                                                                         *)
(* A word is a sequence of the one-character strings "a" and "b".          *)
(* Positions are 0-based, as in Python.  Python's None is NoWord for an    *)
(* optional word and None for an optional match.                           *)
(***************************************************************************)
EXTENDS Integers, Sequences, FiniteSets, TLC

a == "a"
b == "b"
ALPHABET == {a, b}

\* ---------------------------------------------------------------- bounds
\* longest input word of a reduction
MaxLen == 7
\* largest step cap handed to reduce_to_nf in the engine specification
MaxCap == 4

\* longest random word of a campaign run with the shipped step cap
MaxCmpLen == 7
\* longest random word of a campaign run with any step cap
MaxFuzzLen == 3
\* number of trials of a campaign
MaxTrials == 2
\* longest start word of a chain
MaxStartLen == 4
\* longest word a chain step may move to
MaxWordLen == 5
\* the step count of a chain is drawn from StepsMin..StepsMax
StepsMin == 1
StepsMax == 2
\* longest word normal_form is called with
MaxNFLen == 6
\* longest chain, and longest word of a chain, handed to check_chain directly
MaxCheckLen == 3
MaxCheckWord == 2

\* ------------------------------------------------------- program constants
MIN_LEN == 1
MAX_REDUCE_STEPS == 1000
SHOW_EXAMPLES == 12

Words(n) == UNION {[1..k -> ALPHABET] : k \in 0..n}

WordsBetween(lo, hi) == UNION {[1..k -> ALPHABET] : k \in lo..hi}

NoWord == <<"None">>
None == [pos |-> -1, lhs |-> <<>>, rhs |-> <<>>]

\* ------------------------------------------------------------- rule tables
T ==
  << <<(<<b,b,b>>), (<<b,a,b>>)>>,
     <<(<<a,b,a,b>>), (<<b,a,b>>)>>,
     <<(<<a,b,b,a>>), (<<a,b,a>>)>>,
     <<(<<b,a,b,b>>), (<<a,b,b>>)>>,
     <<(<<b,b,a,b>>), (<<b,a,b>>)>>,
     <<(<<a,a,a,a,a>>), (<<a>>)>>,
     <<(<<a,a,a,b,a>>), (<<b,b,a>>)>>,
     <<(<<a,a,a,a,b,b>>), (<<b,b>>)>>,
     <<(<<a,b,a,a,a,a>>), (<<a,b,b>>)>>,
     <<(<<a,b,a,a,a,b>>), (<<a,b>>)>>,
     <<(<<b,a,a,a,a,b>>), (<<b,a,b>>)>>,
     <<(<<b,b,a,a,a,a>>), (<<b,b>>)>>,
     <<(<<b,b,a,a,a,b>>), (<<a,a,a,a,b>>)>>,
     <<(<<b,a,a,b,a,a,b>>), (<<b,a,a,a,b>>)>>,
     <<(<<b,a,b,a,a,b,a>>), (<<b,a,b>>)>>,
     <<(<<b,a,b,a,a,b,b>>), (<<b,a,b,a,a,a>>)>>,
     <<(<<b,a,b,a>>), (<<a,b,a>>)>>,
     <<(<<b,a,b>>), (<<a,b>>)>>,
     <<(<<a,a,b>>), (<<a,b>>)>>,
     <<(<<a,b,a>>), (<<a,b>>)>>,
     <<(<<a,b,b>>), (<<a,b>>)>>,
     <<(<<b,b>>), (<<a,b>>)>> >>

\* the minimal table without its rule bab -> ab
T_MIN_NoBab ==
  << <<(<<a,a,a,a,a>>), (<<a>>)>>,
     <<(<<a,b,a>>), (<<a,b>>)>>,
     <<(<<a,a,b>>), (<<a,b>>)>>,
     <<(<<b,b>>), (<<a,b>>)>> >>

T_MIN ==
  << <<(<<a,a,a,a,a>>), (<<a>>)>>,
     <<(<<a,b,a>>), (<<a,b>>)>>,
     <<(<<a,a,b>>), (<<a,b>>)>>,
     <<(<<b,a,b>>), (<<a,b>>)>>,
     <<(<<b,b>>), (<<a,b>>)>> >>

\* A rule list with an empty lhs, two rules sharing one lhs, and lhs's that
\* are prefixes of one another: an input of the matcher, not a table of the
\* program.
R_TIE ==
  << <<(<<>>), (<<a>>)>>,
     <<(<<a>>), (<<b,b>>)>>,
     <<(<<a,b>>), (<<a>>)>>,
     <<(<<a,b>>), (<<b>>)>>,
     <<(<<a,b,b>>), (<<>>)>> >>

RuleSets == {T, T_MIN, R_TIE}

\* A rule list with a rule that rewrites ab to itself: an input of neighbors,
\* not a table of the program.
R_SAME ==
  << <<(<<a,b>>), (<<a,b>>)>>,
     <<(<<b>>), (<<a>>)>> >>

\* ------------------------------------------------------------ str helpers
\* word[i : i + len(lhs)] == lhs
OccursAt(x, lhs, i) ==
  /\ i >= 0
  /\ i + Len(lhs) <= Len(x)
  /\ SubSeq(x, i + 1, i + Len(lhs)) = lhs

Min(S) == CHOOSE x \in S : \A y \in S : x <= y

\* str.find(sub, from): the lowest index >= from where sub occurs, or -1
Find(x, sub, from) ==
  LET hits == {i \in from..(Len(x) - Len(sub)) : OccursAt(x, sub, i)}
  IN  IF hits = {} THEN -1 ELSE Min(hits)

\* word[:pos] + rhs + word[pos + n:]
Splice(x, pos, n, rhs) ==
  SubSeq(x, 1, pos) \o rhs \o SubSeq(x, pos + n + 1, Len(x))

\* ------------------------------------------------------------------ state
\* One call of reduce_to_nf: its arguments, its locals, its position and its
\* returned triple; call/prev: which call of a test sequence this is and what
\* the call before it returned.
VARIABLES word, rules, max_steps, cur, trace, step, pc, ret, call, prev

engineVars == <<word, rules, max_steps, cur, trace, step, pc, ret, call, prev>>

\* One run of run_fuzz: the test parameters it is configured with (step_cap is
\* the value of MAX_REDUCE_STEPS, max_len that of MAX_LEN, trials the
\* argument), its loop index t, its counters and examples, the locals w, equal
\* and info of the last trial, its position and the verdict it prints.
VARIABLES step_cap, max_len, trials, t, successes, failures, non_terminating,
          examples, w, equal, info, fpc, verdict

fuzzVars == <<step_cap, max_len, trials, t, successes, failures,
              non_terminating, examples, w, equal, info, fpc, verdict>>

\* One call of random_chain followed by check_chain: the start word, the
\* step count drawn, the chain, the current word (the local w), the
\* iterations done, the position, and what check_chain returned.
VARIABLES start, steps, chain, cw, iter, mpc, result

metaVars == <<start, steps, chain, cw, iter, mpc, result>>

\* One call of normal_form: the argument as passed, the local word as the
\* loop rewrites it, the flag changed, and the position.
VARIABLES nf_arg, nf_word, changed, nf_pc

nfVars == <<nf_arg, nf_word, changed, nf_pc>>

vars == <<engineVars, fuzzVars, metaVars, nfVars>>

\* ---------------------------------------------------------------- matcher
\* the test of line 75 with >= for >: among equal occurrences the last rule wins
TakesOverLastWins(i, lhs, best) ==
  \/ best = None
  \/ i < best.pos
  \/ (i = best.pos /\ Len(lhs) >= Len(best.lhs))

\* the test of line 75: does the occurrence (i, lhs) replace best?
TakesOver(i, lhs, best) ==
  \/ best = None
  \/ i < best.pos
  \/ (i = best.pos /\ Len(lhs) > Len(best.lhs))

\* the while loop of lines 70-78 for one rule
RECURSIVE ScanRule(_, _, _, _, _)
ScanRule(x, lhs, rhs, from, best) ==
  LET i == Find(x, lhs, from)
  IN  IF i = -1
      THEN best
      ELSE ScanRule(x, lhs, rhs, i + 1,
                    IF TakesOver(i, lhs, best)
                    THEN [pos |-> i, lhs |-> lhs, rhs |-> rhs]
                    ELSE best)

RECURSIVE ScanRules(_, _, _, _)

\* the for loop stopping one rule early: the last rule is never scanned
ScanRulesSkipLast(x, rs, k, best) ==
  IF k >= Len(rs)
  THEN best
  ELSE IF rs[k][1] = <<>>
       THEN ScanRules(x, rs, k + 1, best)
       ELSE ScanRules(x, rs, k + 1, ScanRule(x, rs[k][1], rs[k][2], 0, best))

\* the for loop without the test of line 68: an empty lhs is scanned too
ScanRulesNoSkip(x, rs, k, best) ==
  IF k > Len(rs)
  THEN best
  ELSE ScanRules(x, rs, k + 1, ScanRule(x, rs[k][1], rs[k][2], 0, best))

\* the for loop of lines 67-78 from rule k on
ScanRules(x, rs, k, best) ==
  IF k > Len(rs)
  THEN best
  ELSE IF rs[k][1] = <<>>
       THEN ScanRules(x, rs, k + 1, best)
       ELSE ScanRules(x, rs, k + 1, ScanRule(x, rs[k][1], rs[k][2], 0, best))

find_leftmost_longest_match(x, rs) == ScanRules(x, rs, 1, None)

\* ---------------------------------------------------------------- reducer
apply_one_step(x, rs) ==
  LET m == find_leftmost_longest_match(x, rs)
  IN  IF m = None THEN NoWord ELSE Splice(x, m.pos, Len(m.lhs), m.rhs)

Triple(nf, flag, tr) == [nf |-> nf, finished_flag |-> flag, trace |-> tr]

NoRet == Triple(NoWord, FALSE, <<>>)

\* the loop of lines 103-110 from the state (c, tr, s) on
RECURSIVE ReduceFrom(_, _, _, _, _)
ReduceFrom(c, tr, s, rs, cap) ==
  IF s >= cap
  THEN Triple(c, FALSE, tr)
  ELSE LET nxt == apply_one_step(c, rs)
       IN  IF nxt = NoWord
           THEN Triple(c, TRUE, tr)
           ELSE ReduceFrom(nxt, Append(tr, nxt), s + 1, rs, cap)

reduce_to_nf(x, rs, cap) == ReduceFrom(x, <<x>>, 0, rs, cap)

\* the trace list shared between calls instead of created by each
EnterSharedTrace(x) ==
  /\ word' = x
  /\ cur' = x
  /\ trace' = IF ret = NoRet THEN <<x>> ELSE Append(trace, x)
  /\ step' = 0
  /\ pc' = "loop"
  /\ ret' = NoRet

\* cur = word; trace = [cur]
Enter(x) ==
  /\ word' = x
  /\ cur' = x
  /\ trace' = <<x>>
  /\ step' = 0
  /\ pc' = "loop"
  /\ ret' = NoRet

EngineInit ==
  /\ word \in Words(MaxLen)
  /\ rules \in RuleSets
  /\ max_steps \in 0..MaxCap
  /\ cur = word
  /\ trace = <<word>>
  /\ step = 0
  /\ pc = "loop"
  /\ ret = NoRet
  /\ call = "first"
  /\ prev = NoRet

\* the iteration appending the word it rewrote instead of the new one
LoopIterStale ==
  /\ pc = "loop"
  /\ step < max_steps
  /\ LET nxt == apply_one_step(cur, rules)
     IN  IF nxt = NoWord
         THEN /\ pc' = "done"
              /\ ret' = Triple(cur, TRUE, trace)
              /\ UNCHANGED <<cur, trace, step>>
         ELSE /\ cur' = nxt
              /\ trace' = Append(trace, cur)
              /\ step' = step + 1
              /\ UNCHANGED <<pc, ret>>
  /\ UNCHANGED <<word, rules, max_steps, call, prev>>
  /\ UNCHANGED <<fuzzVars, metaVars, nfVars>>

\* one iteration of the for loop
LoopIter ==
  /\ pc = "loop"
  /\ step < max_steps
  /\ LET nxt == apply_one_step(cur, rules)
     IN  IF nxt = NoWord
         THEN /\ pc' = "done"
              /\ ret' = Triple(cur, TRUE, trace)
              /\ UNCHANGED <<cur, trace, step>>
         ELSE /\ cur' = nxt
              /\ trace' = Append(trace, nxt)
              /\ step' = step + 1
              /\ UNCHANGED <<pc, ret>>
  /\ UNCHANGED <<word, rules, max_steps, call, prev>>
  /\ UNCHANGED <<fuzzVars, metaVars, nfVars>>

\* the exhausted loop reporting a finished reduction
LoopExhaustedFinished ==
  /\ pc = "loop"
  /\ step = max_steps
  /\ pc' = "done"
  /\ ret' = Triple(cur, TRUE, trace)
  /\ UNCHANGED <<word, rules, max_steps, cur, trace, step, call, prev>>
  /\ UNCHANGED <<fuzzVars, metaVars, nfVars>>

\* the exhausted loop testing whether the word reached is a normal form
LoopExhaustedTestsNormalForm ==
  /\ pc = "loop"
  /\ step = max_steps
  /\ pc' = "done"
  /\ ret' = Triple(cur, apply_one_step(cur, rules) = NoWord, trace)
  /\ UNCHANGED <<word, rules, max_steps, cur, trace, step, call, prev>>
  /\ UNCHANGED <<fuzzVars, metaVars, nfVars>>

\* range(max_steps) is exhausted: line 110
LoopExhausted ==
  /\ pc = "loop"
  /\ step = max_steps
  /\ pc' = "done"
  /\ ret' = Triple(cur, FALSE, trace)
  /\ UNCHANGED <<word, rules, max_steps, cur, trace, step, call, prev>>
  /\ UNCHANGED <<fuzzVars, metaVars, nfVars>>

\* the same call once more: reduce_to_nf(word, rules, max_steps)
CallAgain ==
  /\ pc = "done"
  /\ call = "first"
  /\ call' = "again"
  /\ prev' = ret
  /\ Enter(word)
  /\ UNCHANGED <<rules, max_steps>>
  /\ UNCHANGED <<fuzzVars, metaVars, nfVars>>

\* a call on the word the first call returned: reduce_to_nf(nf, rules, max_steps)
CallOnFinal ==
  /\ pc = "done"
  /\ call = "first"
  /\ call' = "onfinal"
  /\ prev' = ret
  /\ Enter(ret.nf)
  /\ UNCHANGED <<rules, max_steps>>
  /\ UNCHANGED <<fuzzVars, metaVars, nfVars>>

\* no reduction call is in progress
EngineIdle ==
  /\ word = <<>>
  /\ rules = <<>>
  /\ max_steps = 0
  /\ cur = <<>>
  /\ trace = <<>>
  /\ step = 0
  /\ pc = "idle"
  /\ ret = NoRet
  /\ call = "none"
  /\ prev = NoRet

\* ------------------------------------------------------ equivalence fuzzer
Info(wd, o, mn) ==
  [word |-> wd,
   nf_orig |-> o.nf, ok_orig |-> o.finished_flag,
   steps_orig |-> Len(o.trace) - 1, trace_orig |-> o.trace,
   nf_min |-> mn.nf, ok_min |-> mn.finished_flag,
   steps_min |-> Len(mn.trace) - 1, trace_min |-> mn.trace]

NoInfo == Info(NoWord, NoRet, NoRet)

\* equal computed from the final words alone, the finished flags ignored
compare_systems_flags_ignored(wd) ==
  LET o == reduce_to_nf(wd, T, step_cap)
      mn == reduce_to_nf(wd, T_MIN, step_cap)
  IN  [equal |-> (o.nf = mn.nf), info |-> Info(wd, o, mn)]

compare_systems(wd) ==
  LET o == reduce_to_nf(wd, T, step_cap)
      mn == reduce_to_nf(wd, T_MIN, step_cap)
  IN  [equal |-> (o.finished_flag /\ mn.finished_flag /\ o.nf = mn.nf),
       info |-> Info(wd, o, mn)]

\* run_fuzz(n) up to its loop: lines 149-153
FuzzStart(n) ==
  /\ trials = n
  /\ t = 0
  /\ successes = 0
  /\ failures = 0
  /\ non_terminating = 0
  /\ examples = <<>>
  /\ w = NoWord
  /\ equal = FALSE
  /\ info = NoInfo
  /\ fpc = "fuzz"
  /\ verdict = "none"

FuzzIdle ==
  /\ step_cap = 0
  /\ max_len = 0
  /\ trials = 0
  /\ t = 0
  /\ successes = 0
  /\ failures = 0
  /\ non_terminating = 0
  /\ examples = <<>>
  /\ w = NoWord
  /\ equal = FALSE
  /\ info = NoInfo
  /\ fpc = "idle"
  /\ verdict = "none"

\* a campaign of one trial with the shipped step cap
FuzzInit ==
  /\ step_cap = MAX_REDUCE_STEPS
  /\ max_len = MaxCmpLen
  /\ FuzzStart(1)

\* the campaign with the step cap set to any value up to MaxCap or as shipped
FuzzCapInit ==
  /\ step_cap \in (1..MaxCap) \cup {MAX_REDUCE_STEPS}
  /\ max_len = MaxFuzzLen
  /\ FuzzStart(MaxTrials)

\* the trial that counts a non-finished reduction as a non-termination only,
\* not as a failure
FuzzTrialThreeWay ==
  /\ fpc = "fuzz"
  /\ t < trials
  /\ \E wd \in WordsBetween(MIN_LEN, max_len) :
       LET r == compare_systems(wd)
       IN  /\ w' = wd
           /\ equal' = r.equal
           /\ info' = r.info
           /\ IF r.equal
              THEN /\ successes' = successes + 1
                   /\ UNCHANGED <<failures, non_terminating, examples>>
              ELSE /\ IF ~r.info.ok_orig \/ ~r.info.ok_min
                      THEN /\ non_terminating' = non_terminating + 1
                           /\ UNCHANGED failures
                      ELSE /\ failures' = failures + 1
                           /\ UNCHANGED non_terminating
                   /\ examples' =
                        IF Len(examples) < SHOW_EXAMPLES
                        THEN Append(examples, r.info)
                        ELSE examples
                   /\ UNCHANGED successes
  /\ t' = t + 1
  /\ UNCHANGED <<step_cap, max_len, trials, fpc, verdict>>
  /\ UNCHANGED <<engineVars, metaVars, nfVars>>

\* one trial: the body of the loop of lines 155-166, the word drawn by
\* random_word being any word of MIN_LEN to max_len letters
FuzzTrial ==
  /\ fpc = "fuzz"
  /\ t < trials
  /\ \E wd \in WordsBetween(MIN_LEN, max_len) :
       LET r == compare_systems(wd)
       IN  /\ w' = wd
           /\ equal' = r.equal
           /\ info' = r.info
           /\ IF r.equal
              THEN /\ successes' = successes + 1
                   /\ UNCHANGED <<failures, non_terminating, examples>>
              ELSE /\ failures' = failures + 1
                   /\ non_terminating' =
                        IF ~r.info.ok_orig \/ ~r.info.ok_min
                        THEN non_terminating + 1
                        ELSE non_terminating
                   /\ examples' =
                        IF Len(examples) < SHOW_EXAMPLES
                        THEN Append(examples, r.info)
                        ELSE examples
                   /\ UNCHANGED successes
  /\ t' = t + 1
  /\ UNCHANGED <<step_cap, max_len, trials, fpc, verdict>>
  /\ UNCHANGED <<engineVars, metaVars, nfVars>>

\* after the loop: the report and the verdict of lines 168-202
FuzzReport ==
  /\ fpc = "fuzz"
  /\ t = trials
  /\ fpc' = "done"
  /\ verdict' = IF failures = 0 THEN "all_same" ELSE "mismatches"
  /\ UNCHANGED <<step_cap, max_len, trials, t, successes, failures,
                 non_terminating, examples, w, equal, info>>
  /\ UNCHANGED <<engineVars, metaVars, nfVars>>

\* ------------------------------------------------------------ metamorphic
\* the minimal table without its rule bb -> ab
RULES_NoBB ==
  << <<(<<a,a,a,a,a>>), (<<a>>)>>,
     <<(<<a,b,a>>), (<<a,b>>)>>,
     <<(<<a,a,b>>), (<<a,b>>)>>,
     <<(<<b,a,b>>), (<<a,b>>)>> >>

\* the minimal table with aaaa -> a for aaaaa -> a
RULES_A4 ==
  << <<(<<a,a,a,a>>), (<<a>>)>>,
     <<(<<a,b,a>>), (<<a,b>>)>>,
     <<(<<a,a,b>>), (<<a,b>>)>>,
     <<(<<b,a,b>>), (<<a,b>>)>>,
     <<(<<b,b>>), (<<a,b>>)>> >>

\* the minimal table with ab -> bb added after bb -> ab
RULES_Cyclic ==
  << <<(<<a,a,a,a,a>>), (<<a>>)>>,
     <<(<<a,b,a>>), (<<a,b>>)>>,
     <<(<<a,a,b>>), (<<a,b>>)>>,
     <<(<<b,a,b>>), (<<a,b>>)>>,
     <<(<<b,b>>), (<<a,b>>)>>,
     <<(<<a,b>>), (<<b,b>>)>> >>

\* the minimal system of metamorphic.py
RULES ==
  << <<(<<a,a,a,a,a>>), (<<a>>)>>,
     <<(<<a,b,a>>), (<<a,b>>)>>,
     <<(<<a,a,b>>), (<<a,b>>)>>,
     <<(<<b,a,b>>), (<<a,b>>)>>,
     <<(<<b,b>>), (<<a,b>>)>> >>

\* an optional int that is None
NoInt == -1

has_b(x) == IF \E n \in 1..Len(x) : x[n] = b THEN 1 ELSE 0

a_mod4_if_no_b(x) ==
  IF \E n \in 1..Len(x) : x[n] = b THEN NoInt ELSE Len(x) % 4

end_b_nf(x) ==
  IF Len(x) >= 2 /\ x[Len(x)] = b THEN <<a, b>> ELSE NoWord

\* the for loop of lines 57-62 from rule n on: the first rule whose lhs
\* occurs in x, or 0
RECURSIVE FirstRule(_, _)
FirstRule(x, n) ==
  IF n > Len(RULES)
  THEN 0
  ELSE IF Find(x, RULES[n][1], 0) # -1 THEN n ELSE FirstRule(x, n + 1)

\* one pass of the while loop only: the first applicable rule applied once
normal_form_once(x) ==
  LET n == FirstRule(x, 1)
  IN  IF n = 0
      THEN x
      ELSE Splice(x, Find(x, RULES[n][1], 0), Len(RULES[n][1]), RULES[n][2])

\* the while loop of lines 55-63
RECURSIVE normal_form(_)
normal_form(x) ==
  LET n == FirstRule(x, 1)
  IN  IF n = 0
      THEN x
      ELSE normal_form(Splice(x, Find(x, RULES[n][1], 0),
                              Len(RULES[n][1]), RULES[n][2]))

\* no call of normal_form in progress
NFIdle ==
  /\ nf_arg = <<>>
  /\ nf_word = <<>>
  /\ changed = FALSE
  /\ nf_pc = "idle"

\* normal_form(word) entered: line 54
NFInit ==
  /\ nf_arg \in Words(MaxNFLen)
  /\ nf_word = nf_arg
  /\ changed = TRUE
  /\ nf_pc = "loop"

\* one pass of the while loop in which the for loop finds a rule: lines 55-62
NFRewrite ==
  /\ nf_pc = "loop"
  /\ changed
  /\ FirstRule(nf_word, 1) # 0
  /\ LET n == FirstRule(nf_word, 1)
     IN  nf_word' = Splice(nf_word, Find(nf_word, RULES[n][1], 0),
                           Len(RULES[n][1]), RULES[n][2])
  /\ changed' = TRUE
  /\ UNCHANGED <<nf_arg, nf_pc>>
  /\ UNCHANGED <<engineVars, fuzzVars, metaVars>>

\* one pass in which the for loop finds no rule: changed stays False
NFNoRule ==
  /\ nf_pc = "loop"
  /\ changed
  /\ FirstRule(nf_word, 1) = 0
  /\ changed' = FALSE
  /\ UNCHANGED <<nf_arg, nf_word, nf_pc>>
  /\ UNCHANGED <<engineVars, fuzzVars, metaVars>>

\* the while condition fails and word is returned: line 63
NFReturn ==
  /\ nf_pc = "loop"
  /\ ~changed
  /\ nf_pc' = "done"
  /\ UNCHANGED <<nf_arg, nf_word, changed>>
  /\ UNCHANGED <<engineVars, fuzzVars, metaVars>>

\* Inv.__init__
Inv(x) ==
  [has_b |-> has_b(x), mod4 |-> a_mod4_if_no_b(x),
   end_b |-> end_b_nf(x), nf |-> normal_form(x)]

NoInv == [has_b |-> 0, mod4 |-> NoInt, end_b |-> NoWord, nf |-> NoWord]

\* ok_vs comparing the normal form also when end_b is undefined
ok_vs_nf_always(self, other) ==
  IF self.has_b # other.has_b
  THEN FALSE
  ELSE IF self.mod4 # NoInt /\ other.mod4 # NoInt /\ self.mod4 # other.mod4
       THEN FALSE
       ELSE IF other.nf # <<a, b>>
            THEN FALSE
            ELSE TRUE

\* Inv.ok_vs
ok_vs(self, other) ==
  IF self.has_b # other.has_b
  THEN FALSE
  ELSE IF self.mod4 # NoInt /\ other.mod4 # NoInt /\ self.mod4 # other.mod4
       THEN FALSE
       ELSE IF self.end_b # NoWord /\ other.nf # <<a, b>>
            THEN FALSE
            ELSE TRUE

\* the while loop left after its first occurrence
ReplacementsFirstOnly(x, old, new, from, outs) ==
  LET pos == Find(x, old, from)
  IN  IF pos = -1
      THEN outs
      ELSE outs \cup {Splice(x, pos, Len(old), new)}

\* one while loop of neighbors (lines 105-111 or 114-120): every occurrence
\* of old from position from on is replaced by new, the results added to outs
RECURSIVE Replacements(_, _, _, _, _)
Replacements(x, old, new, from, outs) ==
  LET pos == Find(x, old, from)
  IN  IF pos = -1
      THEN outs
      ELSE Replacements(x, old, new, pos + 1,
                        outs \cup {Splice(x, pos, Len(old), new)})

\* the second loop cutting len(lhs) letters where it should cut len(rhs)
RECURSIVE ReplacementsWrongCut(_, _, _, _, _)
ReplacementsWrongCut(x, old, new, from, outs) ==
  LET pos == Find(x, old, from)
  IN  IF pos = -1
      THEN outs
      ELSE ReplacementsWrongCut(x, old, new, pos + 1,
                                outs \cup {Splice(x, pos, Len(new), new)})

RECURSIVE NeighborsFrom(_, _, _, _)

\* the rules applied from lhs to rhs only
NeighborsFromForwardOnly(x, rs, n, outs) ==
  IF n > Len(rs)
  THEN outs
  ELSE NeighborsFrom(x, rs, n + 1, Replacements(x, rs[n][1], rs[n][2], 0, outs))

\* the rhs -> lhs loop with the wrong cut
NeighborsFromWrongCut(x, rs, n, outs) ==
  IF n > Len(rs)
  THEN outs
  ELSE NeighborsFrom(x, rs, n + 1,
         ReplacementsWrongCut(x, rs[n][2], rs[n][1], 0,
           Replacements(x, rs[n][1], rs[n][2], 0, outs)))

\* the for loop of lines 103-120 from rule n on
NeighborsFrom(x, rs, n, outs) ==
  IF n > Len(rs)
  THEN outs
  ELSE NeighborsFrom(x, rs, n + 1,
         Replacements(x, rs[n][2], rs[n][1], 0,
           Replacements(x, rs[n][1], rs[n][2], 0, outs)))

neighbors(x, rs) == NeighborsFrom(x, rs, 1, {}) \ {x}

Verdict(good, base, bad, wbad) ==
  [good |-> good, base |-> base, bad |-> bad, wbad |-> wbad]

NoVerdict == Verdict(FALSE, NoInv, NoInv, NoWord)

\* the scan that goes on after a violation and reports the last one
CheckFromLast(ch, base, n) ==
  LET bad == {m \in n..Len(ch) : ~ok_vs(base, Inv(ch[m]))}
  IN  IF bad = {}
      THEN Verdict(TRUE, base, NoInv, NoWord)
      ELSE LET m == CHOOSE q \in bad : \A z \in bad : z <= q
           IN  Verdict(FALSE, base, Inv(ch[m]), ch[m])

\* the for loop of lines 156-159 from chain[n - 1] on
RECURSIVE CheckFrom(_, _, _)
CheckFrom(ch, base, n) ==
  IF n > Len(ch)
  THEN Verdict(TRUE, base, NoInv, NoWord)
  ELSE IF ~ok_vs(base, Inv(ch[n]))
       THEN Verdict(FALSE, base, Inv(ch[n]), ch[n])
       ELSE CheckFrom(ch, base, n + 1)

check_chain(ch) == CheckFrom(ch, Inv(ch[1]), 2)

MetaIdle ==
  /\ start = <<>>
  /\ steps = 0
  /\ chain = <<>>
  /\ cw = <<>>
  /\ iter = 0
  /\ mpc = "idle"
  /\ result = NoVerdict

\* random_chain(start) up to its loop, the step count drawn by randint being
\* any of StepsMin..StepsMax
MetaInit ==
  /\ start \in Words(MaxStartLen)
  /\ steps \in StepsMin..StepsMax
  /\ chain = <<start>>
  /\ cw = start
  /\ iter = 0
  /\ mpc = "walk"
  /\ result = NoVerdict

\* the loop running steps + 1 times
ChainStepOneMore ==
  /\ mpc = "walk"
  /\ iter <= steps
  /\ LET neigh == neighbors(cw, RULES)
     IN  IF neigh = {}
         THEN /\ mpc' = "built"
              /\ UNCHANGED <<cw, chain, iter>>
         ELSE /\ \E y \in neigh :
                   /\ Len(y) <= MaxWordLen
                   /\ cw' = y
                   /\ chain' = Append(chain, y)
              /\ iter' = iter + 1
              /\ UNCHANGED mpc
  /\ UNCHANGED <<start, steps, result>>
  /\ UNCHANGED <<engineVars, fuzzVars, nfVars>>

\* one iteration of the loop of lines 140-145, the neighbor drawn by
\* random.choice being any neighbor of at most MaxWordLen letters
ChainStep ==
  /\ mpc = "walk"
  /\ iter < steps
  /\ LET neigh == neighbors(cw, RULES)
     IN  IF neigh = {}
         THEN /\ mpc' = "built"
              /\ UNCHANGED <<cw, chain, iter>>
         ELSE /\ \E y \in neigh :
                   /\ Len(y) <= MaxWordLen
                   /\ cw' = y
                   /\ chain' = Append(chain, y)
              /\ iter' = iter + 1
              /\ UNCHANGED mpc
  /\ UNCHANGED <<start, steps, result>>
  /\ UNCHANGED <<engineVars, fuzzVars, nfVars>>

\* the loop has run steps times: line 147
ChainReturn ==
  /\ mpc = "walk"
  /\ iter = steps
  /\ mpc' = "built"
  /\ UNCHANGED <<start, steps, chain, cw, iter, result>>
  /\ UNCHANGED <<engineVars, fuzzVars, nfVars>>

\* check_chain called on any chain of one to MaxCheckLen words
CheckInit ==
  /\ chain \in UNION {[1..n -> Words(MaxCheckWord)] : n \in 1..MaxCheckLen}
  /\ start = <<>>
  /\ steps = 0
  /\ cw = <<>>
  /\ iter = 0
  /\ mpc = "built"
  /\ result = NoVerdict

\* check_chain(chain) on the chain random_chain returned
CheckChain ==
  /\ mpc = "built"
  /\ result' = check_chain(chain)
  /\ mpc' = "checked"
  /\ UNCHANGED <<start, steps, chain, cw, iter>>
  /\ UNCHANGED <<engineVars, fuzzVars, nfVars>>

\* ---------------------------------------------------------- specifications
Init == EngineInit /\ FuzzIdle /\ MetaIdle /\ NFIdle

Next ==
  \/ LoopIter
  \/ LoopExhausted
  \/ CallAgain
  \/ CallOnFinal

Spec == Init /\ [][Next]_vars

FuzzNext ==
  \/ FuzzTrial
  \/ FuzzReport

InitFuzz == EngineIdle /\ FuzzInit /\ MetaIdle /\ NFIdle

SpecFuzz == InitFuzz /\ [][FuzzNext]_vars

InitFuzzCap == EngineIdle /\ FuzzCapInit /\ MetaIdle /\ NFIdle

SpecFuzzCap == InitFuzzCap /\ [][FuzzNext]_vars

MetaNext ==
  \/ ChainStep
  \/ ChainReturn
  \/ CheckChain

InitMeta == EngineIdle /\ FuzzIdle /\ MetaInit /\ NFIdle

SpecMeta == InitMeta /\ [][MetaNext]_vars

InitCheck == EngineIdle /\ FuzzIdle /\ CheckInit /\ NFIdle

CheckNext == CheckChain

SpecCheck == InitCheck /\ [][CheckNext]_vars

InitNF == EngineIdle /\ FuzzIdle /\ MetaIdle /\ NFInit

NFNext ==
  \/ NFRewrite
  \/ NFNoRule
  \/ NFReturn

\* a call that has started runs on: nothing else is scheduled
SpecNF == InitNF /\ [][NFNext]_vars /\ WF_vars(NFNext)

\* ================================================================= claims
\* The occurrences of non-empty left-hand sides in x: <<k, i>> when the lhs
\* of rule k occurs at position i.
Occurrences(x, rs) ==
  {o \in (1..Len(rs)) \X (0..Len(x)) :
     rs[o[1]][1] # <<>> /\ OccursAt(x, rs[o[1]][1], o[2])}

\* o is leftmost, then longest, then first declared among the occurrences
Governs(o, x, rs) ==
  /\ o \in Occurrences(x, rs)
  /\ \A q \in Occurrences(x, rs) :
       /\ o[2] <= q[2]
       /\ (q[2] = o[2] => Len(rs[q[1]][1]) <= Len(rs[o[1]][1]))
       /\ (q[2] = o[2] /\ Len(rs[q[1]][1]) = Len(rs[o[1]][1]) => o[1] <= q[1])

MatchOf(o, rs) == [pos |-> o[2], lhs |-> rs[o[1]][1], rhs |-> rs[o[1]][2]]

\* the word the governing occurrence of x rewrites x to
Rewritten(x, rs) ==
  LET o == CHOOSE q \in Occurrences(x, rs) : Governs(q, x, rs)
  IN  Splice(x, o[2], Len(rs[o[1]][1]), rs[o[1]][2])

\* C1: on every word of the trace the matcher returns None iff no non-empty
\* lhs occurs in it, and otherwise the match of the occurrence that is
\* leftmost, then longest, then first in declared order; on bbab and abba
\* under T that is bbab at 0 and abba at 0.
C1_LeftmostLongestFirst ==
  \A n \in 1..Len(trace) :
    LET x == trace[n]
        m == find_leftmost_longest_match(x, rules)
    IN  /\ (m = None) <=> (Occurrences(x, rules) = {})
        /\ m # None =>
             \E o \in Occurrences(x, rules) :
               Governs(o, x, rules) /\ m = MatchOf(o, rules)
        /\ (rules = T /\ x = <<b,b,a,b>>) =>
             m = [pos |-> 0, lhs |-> <<b,b,a,b>>, rhs |-> <<b,a,b>>]
        /\ (rules = T /\ x = <<a,b,b,a>>) =>
             m = [pos |-> 0, lhs |-> <<a,b,b,a>>, rhs |-> <<a,b,a>>]

\* a rewritten word whose leftmost longest occurrence belongs to two rules
C1_Witness ==
  /\ Len(trace) >= 2
  /\ \E o \in Occurrences(trace[1], rules), q \in Occurrences(trace[1], rules) :
       /\ Governs(o, trace[1], rules)
       /\ q[1] > o[1]
       /\ q[2] = o[2]
       /\ rules[q[1]][1] = rules[o[1]][1]
       /\ rules[q[1]][2] # rules[o[1]][2]
       /\ trace[2] = Splice(trace[1], o[2], Len(rules[o[1]][1]), rules[o[1]][2])

\* C3: a reduction returned with finished_flag = True returns a normal form:
\* no non-empty lhs occurs in the final word and the matcher finds nothing.
C3_FinishedIsNormalForm ==
  (pc = "done" /\ ret.finished_flag) =>
    /\ Occurrences(ret.nf, rules) = {}
    /\ find_leftmost_longest_match(ret.nf, rules) = None

C3_Witness ==
  /\ pc = "done"
  /\ ret.finished_flag
  /\ Len(ret.trace) >= 3

\* C4: at every point of the loop and in the result, trace[0] is the input,
\* each next element is the previous one rewritten at its governing match,
\* cur and the returned word are the last element, and the trace has at most
\* max_steps + 1 elements.
C4_TraceInvariant ==
  /\ trace[1] = word
  /\ \A n \in 1..(Len(trace) - 1) :
       /\ Occurrences(trace[n], rules) # {}
       /\ trace[n + 1] = Rewritten(trace[n], rules)
  /\ cur = trace[Len(trace)]
  /\ Len(trace) = step + 1
  /\ Len(trace) <= max_steps + 1
  /\ pc = "done" => (ret.trace = trace /\ ret.nf = trace[Len(trace)])

C4_Witness ==
  /\ pc = "done"
  /\ max_steps >= 2
  /\ Len(ret.trace) = max_steps + 1

C6_Idempotent ==
  (pc = "done" /\ call = "onfinal" /\ prev.finished_flag /\ max_steps >= 1) =>
    ret = Triple(prev.nf, TRUE, <<prev.nf>>)

C6_Witness ==
  /\ pc = "done"
  /\ call = "onfinal"
  /\ prev.finished_flag
  /\ max_steps >= 1
  /\ Len(prev.trace) >= 2
  /\ ret = Triple(prev.nf, TRUE, <<prev.nf>>)

\* C2: with the shipped step cap, for every word both reductions of a trial
\* finish and return the same word, compare_systems returns equal = True, and
\* run_fuzz counts no failure.
C2_SystemsEquivalent ==
  /\ failures = 0
  /\ non_terminating = 0
  /\ successes = t
  /\ t >= 1 =>
       /\ equal
       /\ info.ok_orig
       /\ info.ok_min
       /\ info.nf_orig = info.nf_min
  /\ fpc = "done" => verdict = "all_same"

\* a word of seven letters that the two systems reduce along different traces
C2_Witness ==
  /\ fpc = "done"
  /\ step_cap = MAX_REDUCE_STEPS
  /\ Len(w) >= 7
  /\ equal
  /\ info.steps_orig >= 1
  /\ info.steps_min >= 1
  /\ info.trace_orig[2] # info.trace_min[2]

\* C7: equal is True iff both reductions of the trial's word returned
\* finished_flag = True and the same final word; it is False when either hit
\* the cap, also when the final words coincide; the step counts of info are
\* len(trace) - 1.
C7_EqualIffBothFinishedAndSame ==
  t >= 1 =>
    LET o == reduce_to_nf(w, T, step_cap)
        mn == reduce_to_nf(w, T_MIN, step_cap)
    IN  /\ equal <=> (o.finished_flag /\ mn.finished_flag /\ o.nf = mn.nf)
        /\ (~o.finished_flag \/ ~mn.finished_flag) => ~equal
        /\ info.ok_orig = o.finished_flag
        /\ info.ok_min = mn.finished_flag
        /\ info.steps_orig = Len(o.trace) - 1
        /\ info.steps_min = Len(mn.trace) - 1
        /\ info.steps_orig = Len(info.trace_orig) - 1
        /\ info.steps_min = Len(info.trace_min) - 1

\* a reduction hit the cap and the two final words coincide
C7_Witness ==
  /\ t >= 1
  /\ ~equal
  /\ ~info.ok_orig
  /\ info.nf_orig = info.nf_min
  /\ info.steps_orig = step_cap

\* the examples in which a reduction did not finish
NotFinished == {n \in 1..Len(examples) : ~examples[n].ok_orig \/ ~examples[n].ok_min}

C9_EndBNormalFormIsAB ==
  /\ \A n \in 1..Len(chain) :
       (Len(chain[n]) >= 2 /\ chain[n][Len(chain[n])] = b) =>
         normal_form(chain[n]) = <<a, b>>
  /\ end_b_nf(start) # NoWord =>
       \A n \in 1..Len(chain) : normal_form(chain[n]) = <<a, b>>
  /\ mpc = "checked" =>
       ~(~result.good /\ result.base.end_b # NoWord /\ result.bad.nf # <<a, b>>)

\* a checked chain from aaab that passes through a word not ending in b
C9_Witness ==
  /\ mpc = "checked"
  /\ start = <<a, a, a, b>>
  /\ Len(chain) >= 3
  /\ \E n \in 1..Len(chain) : chain[n][Len(chain[n])] = a
  /\ result.good

\* C10: every neighbor of the current word has the current word as a
\* neighbor, and the word of the chain before it is such a neighbor.
C10_NeighborsSymmetric ==
  /\ \A y \in neighbors(cw, RULES) : cw \in neighbors(y, RULES)
  /\ Len(chain) >= 2 => chain[Len(chain) - 1] \in neighbors(cw, RULES)

\* a step that applied a rule from rhs to lhs
C10_Witness ==
  /\ Len(chain) >= 2
  /\ Len(chain[2]) > Len(chain[1])
  /\ chain[2] \in neighbors(chain[1], RULES)
  /\ chain[1] \in neighbors(chain[2], RULES)

\* C11: for every rule list and every cap >= 1 the reduction of the empty
\* word returns ('', True, ['']).
C11_EmptyWordFixedPoint ==
  (pc = "done" /\ word = <<>> /\ max_steps >= 1) =>
    ret = Triple(<<>>, TRUE, << <<>> >>)

\* the empty word reduced under the rule list that holds an empty lhs
C11_Witness ==
  /\ pc = "done"
  /\ word = <<>>
  /\ max_steps >= 1
  /\ rules = R_TIE
  /\ ret = Triple(<<>>, TRUE, << <<>> >>)

\* C13: finished_flag = True is returned exactly when the matcher found
\* nothing, after fewer than max_steps rewrite steps; finished_flag = False
\* exactly when max_steps steps were applied, also when the word reached by
\* the last of them is a normal form.
C13_FlagTellsHowTheLoopStopped ==
  pc = "done" =>
    /\ ret.finished_flag =>
         /\ Len(ret.trace) - 1 < max_steps
         /\ Occurrences(ret.nf, rules) = {}
    /\ ret.finished_flag <=> (Len(ret.trace) - 1 < max_steps)
    /\ ~ret.finished_flag <=> (Len(ret.trace) = max_steps + 1)

\* max_steps rewrite steps ended on a normal form and the flag is False
C13_Witness ==
  /\ pc = "done"
  /\ max_steps >= 1
  /\ ~ret.finished_flag
  /\ Len(ret.trace) = max_steps + 1
  /\ Occurrences(ret.nf, rules) = {}

\* the word the first pass of normal_form rewrites x to
FirstPass(x) ==
  LET n == FirstRule(x, 1)
  IN  Splice(x, Find(x, RULES[n][1], 0), Len(RULES[n][1]), RULES[n][2])

\* C12: normal_form returns, for the current word of the chain, the final
\* word of the leftmost-longest reduction under T_MIN, which finishes within
\* the shipped cap.
C12_NormalFormAgreesWithReducer ==
  LET r == reduce_to_nf(cw, T_MIN, MAX_REDUCE_STEPS)
  IN  /\ r.finished_flag
      /\ normal_form(cw) = r.nf

\* a word the two strategies rewrite differently at their first step
C12_Witness ==
  /\ Len(chain) >= 2
  /\ FirstRule(cw, 1) # 0
  /\ FirstPass(cw) # apply_one_step(cw, T_MIN)
  /\ normal_form(cw) = reduce_to_nf(cw, T_MIN, MAX_REDUCE_STEPS).nf

\* the words u + new + v with x = u + old + v, for the rules read as
\* (old, new) when fwd and as (new, old) otherwise
Applications(x, rs, fwd) ==
  {Splice(x, o[2], Len(rs[o[1]][IF fwd THEN 1 ELSE 2]),
          rs[o[1]][IF fwd THEN 2 ELSE 1]) :
     o \in {q \in (1..Len(rs)) \X (0..Len(x)) :
              OccursAt(x, rs[q[1]][IF fwd THEN 1 ELSE 2], q[2])}}

NeighborRuleSets == {RULES, R_TIE, R_SAME}

\* C14: for the current word and every rule list, neighbors is the set of
\* words obtained by one application of a rule in either direction at any
\* occurrence, overlapping ones included, without the word itself.
C14_NeighborsAreAllApplications ==
  \A rs \in NeighborRuleSets :
    /\ neighbors(cw, rs) =
         (Applications(cw, rs, TRUE) \cup Applications(cw, rs, FALSE)) \ {cw}
    /\ cw \notin neighbors(cw, rs)

\* a step at the second of two overlapping occurrences of a lhs, and a rule
\* list under which the word it left reproduces itself
C14_Witness ==
  /\ Len(chain) >= 2
  /\ \E n \in 1..Len(RULES), i \in 0..Len(chain[1]) :
       /\ OccursAt(chain[1], RULES[n][1], i)
       /\ OccursAt(chain[1], RULES[n][1], i + 1)
       /\ chain[2] = Splice(chain[1], i + 1, Len(RULES[n][1]), RULES[n][2])
       /\ chain[2] # Splice(chain[1], i, Len(RULES[n][1]), RULES[n][2])
  /\ chain[1] \in Applications(chain[1], R_SAME, TRUE)
  /\ chain[1] \notin neighbors(chain[1], R_SAME)

\* C15: every neighbor of the current word agrees with it on has_b and, when
\* it has no b, on the length mod 4; every word of the chain agrees so with
\* the start word, and check_chain reports no has_b or mod4 violation.
C15_StepsPreserveCheapInvariants ==
  /\ \A y \in neighbors(cw, RULES) :
       /\ has_b(y) = has_b(cw)
       /\ has_b(cw) = 0 => (has_b(y) = 0 /\ Len(y) % 4 = Len(cw) % 4)
  /\ \A n \in 1..Len(chain) :
       /\ has_b(chain[n]) = has_b(start)
       /\ a_mod4_if_no_b(chain[n]) = a_mod4_if_no_b(start)
  /\ (mpc = "checked" /\ ~result.good) =>
       /\ result.bad.has_b = result.base.has_b
       /\ result.bad.mod4 = result.base.mod4

\* a checked chain of words without b that moved
C15_Witness ==
  /\ mpc = "checked"
  /\ has_b(start) = 0
  /\ Len(chain) >= 3
  /\ chain[2] # start
  /\ result.good

\* C18: the chain starts at the start word, each next word is a neighbor of
\* the one before, the chain has at most StepsMax + 1 words, and a returned
\* chain has fewer than steps + 1 words only if its last word has no neighbors.
C18_ChainIsAWalk ==
  /\ chain[1] = start
  /\ \A n \in 1..(Len(chain) - 1) : chain[n + 1] \in neighbors(chain[n], RULES)
  /\ cw = chain[Len(chain)]
  /\ Len(chain) = iter + 1
  /\ Len(chain) <= StepsMax + 1
  /\ (mpc \in {"built", "checked"} /\ Len(chain) < steps + 1) =>
       neighbors(cw, RULES) = {}

\* a chain returned early at a word without neighbors
C18_Witness ==
  /\ mpc = "built"
  /\ Len(chain) < steps + 1
  /\ neighbors(cw, RULES) = {}
  /\ chain = <<start>>

\* the consistency of two snapshots as the claim states it
Consistent(bs, cr) ==
  /\ bs.has_b = cr.has_b
  /\ (bs.mod4 = NoInt \/ cr.mod4 = NoInt \/ bs.mod4 = cr.mod4)
  /\ (bs.end_b = NoWord \/ cr.nf = <<a, b>>)

\* C16: ok_vs(base, cur) is True iff has_b is equal, mod4 is undefined or
\* equal, and base.end_b is undefined or cur.nf = ab; check_chain reports a
\* violation only for a snapshot that is inconsistent in this sense.
C16_OkVsSkipsUndefined ==
  /\ \A n \in 2..Len(chain) :
       ok_vs(Inv(chain[1]), Inv(chain[n]))
         <=> Consistent(Inv(chain[1]), Inv(chain[n]))
  /\ mpc = "checked" =>
       /\ result.good <=>
            \A n \in 2..Len(chain) : Consistent(Inv(chain[1]), Inv(chain[n]))
       /\ ~result.good => ~Consistent(result.base, result.bad)

\* a chain found consistent although mod4 and end_b of its base are
\* undefined and the normal form of its second word is not ab
C16_Witness ==
  /\ mpc = "checked"
  /\ Len(chain) >= 2
  /\ result.good
  /\ result.base.mod4 = NoInt
  /\ result.base.end_b = NoWord
  /\ normal_form(chain[2]) # <<a, b>>

\* the later words of the chain that are inconsistent with its first
Inconsistent == {n \in 2..Len(chain) : ~ok_vs(Inv(chain[1]), Inv(chain[n]))}

\* C17: check_chain returns (False, base, Inv(w), w) for the first word w
\* after chain[0] that is inconsistent with the snapshot of chain[0], and
\* (True, base, None, None) iff there is none.
C17_FirstViolationReported ==
  mpc = "checked" =>
    /\ result.base = Inv(chain[1])
    /\ result.good <=> (Inconsistent = {})
    /\ result.good => (result.bad = NoInv /\ result.wbad = NoWord)
    /\ ~result.good =>
         /\ result.wbad = chain[Min(Inconsistent)]
         /\ result.bad = Inv(chain[Min(Inconsistent)])
    /\ Len(chain) = 1 => result.good

\* two different inconsistent words, the first of them reported
C17_Witness ==
  /\ mpc = "checked"
  /\ ~result.good
  /\ Len(chain) >= 3
  /\ Inconsistent = {2, 3}
  /\ chain[3] # chain[2]
  /\ result.wbad = chain[2]

\* C19: every call of normal_form returns, and the word it returns has no
\* occurrence of the lhs of any rule of RULES.
C19_NormalFormTerminates ==
  <>(nf_pc = "done" /\ Occurrences(nf_word, RULES) = {})

\* a call that returned after at least three rewriting passes
C19_Witness ==
  /\ nf_pc = "done"
  /\ nf_word # nf_arg
  /\ nf_word # normal_form_once(nf_arg)
  /\ nf_word # normal_form_once(normal_form_once(nf_arg))
  /\ Occurrences(nf_word, RULES) = {}

====
